---- MODULE Spec2Model ----
(***************************************************************************)
(* Eat_wise (src/server/streamlit_app.py): the response-normalisation and  *)
(* restriction-enforcement pipeline of the Streamlit nutrition assistant.  *)
(*                                                                         *)
(* Representation.                                                         *)
(*  - A Python str is a tuple of one-character strings, so that lower(),   *)
(*    strip(), substring containment and the numeric regular expression    *)
(*    are computed character by character.                                 *)
(*  - A JSON value is a tagged record: JNull, JNum(n), JStr(s), JArr(a),   *)
(*    JObj(m) with m a function from key names to JSON values.             *)
(*  - A number is an integer count of twentieths (0.05).  Item values are  *)
(*    drawn from multiples of 0.25, which binary floating point holds and  *)
(*    adds exactly; a value rounded to one decimal is a multiple of 0.1.   *)
(***************************************************************************)
EXTENDS Integers, Sequences, FiniteSets, TLC

VARIABLES
    pc,                 \* position of the running handler / harness
    restrictions,       \* st.multiselect "Dietary restrictions" (a list of tags)
    content,            \* the reply text handed to extract_json
    parsed_in,          \* history: the value handed to filter_items_by_restrictions
    parsed,             \* the parsed object (mutated in place by the filter)
    removed_items,      \* names removed by the filter
    prev_out,           \* history: <<parsed, removed>> of the previous filter run
    missing_nutrition,  \* names classified as missing nutrition
    shown_rows,         \* rows of the rendered breakdown
    totals_row,         \* the rendered totals table, or NoTable
    messages,           \* st.error / st.info / st.warning calls of the action
    requests,           \* requests.post calls issued by the running action
    response,           \* how the call of the running action ended
    item_name,          \* argument of violates_restrictions (harness)
    verdict             \* result of violates_restrictions (harness)

vars == << pc, restrictions, content, parsed_in, parsed, removed_items, prev_out,
           missing_nutrition, shown_rows, totals_row, messages, requests,
           response, item_name, verdict >>

---------------------------------------------------------------------------
(* Python str operations *)

\* the cased characters of the replies and their lower-case forms
LowerOf ==
    "A" :> "a" @@ "B" :> "b" @@ "C" :> "c" @@ "D" :> "d" @@ "E" :> "e" @@ "F" :> "f"
    @@ "G" :> "g" @@ "H" :> "h" @@ "I" :> "i" @@ "J" :> "j" @@ "K" :> "k" @@ "L" :> "l"
    @@ "M" :> "m" @@ "N" :> "n" @@ "O" :> "o" @@ "P" :> "p" @@ "Q" :> "q" @@ "R" :> "r"
    @@ "S" :> "s" @@ "T" :> "t" @@ "U" :> "u" @@ "V" :> "v" @@ "W" :> "w" @@ "X" :> "x"
    @@ "Y" :> "y" @@ "Z" :> "z"

\* str.lower() on one character
lower_char(c) == IF c \in DOMAIN LowerOf THEN LowerOf[c] ELSE c

\* str.lower()
RECURSIVE str_lower(_)
str_lower(s) ==
    IF s = <<>> THEN <<>> ELSE <<lower_char(Head(s))>> \o str_lower(Tail(s))

\* the Python operator `sub in s` on str
str_in(sub, s) ==
    \E i \in 0..(Len(s) - Len(sub)) : \A j \in 1..Len(sub) : s[i + j] = sub[j]

---------------------------------------------------------------------------
(* RESTRICTION_KEYWORDS *)

KW_Vegetarian ==
  << <<"c","h","i","c","k","e","n">>,
     <<"b","e","e","f">>,
     <<"p","o","r","k">>,
     <<"f","i","s","h">>,
     <<"s","a","l","m","o","n">>,
     <<"t","u","n","a">>,
     <<"t","u","r","k","e","y">>,
     <<"l","a","m","b">>,
     <<"b","a","c","o","n">>,
     <<"h","a","m">>,
     <<"s","a","u","s","a","g","e">>,
     <<"s","h","r","i","m","p">>,
     <<"s","e","a","f","o","o","d">>,
     <<"m","e","a","t">>,
     <<"d","u","c","k">>,
     <<"v","e","a","l">>,
     <<"v","e","n","i","s","o","n">>,
     <<"a","n","c","h","o","v","y">> >>

\* a Vegan list that has not followed the Vegetarian one ("chicken" missing)
KW_Vegan_drifted ==
    Tail(KW_Vegetarian)
    \o << <<"m","i","l","k">>, <<"c","h","e","e","s","e">>, <<"b","u","t","t","e","r">>,
          <<"y","o","g","u","r","t">>, <<"c","r","e","a","m">>, <<"e","g","g">>,
          <<"e","g","g","s">>, <<"h","o","n","e","y">> >>
KW_Vegan ==
  << <<"c","h","i","c","k","e","n">>,
     <<"b","e","e","f">>,
     <<"p","o","r","k">>,
     <<"f","i","s","h">>,
     <<"s","a","l","m","o","n">>,
     <<"t","u","n","a">>,
     <<"t","u","r","k","e","y">>,
     <<"l","a","m","b">>,
     <<"b","a","c","o","n">>,
     <<"h","a","m">>,
     <<"s","a","u","s","a","g","e">>,
     <<"s","h","r","i","m","p">>,
     <<"s","e","a","f","o","o","d">>,
     <<"m","e","a","t">>,
     <<"d","u","c","k">>,
     <<"v","e","a","l">>,
     <<"v","e","n","i","s","o","n">>,
     <<"a","n","c","h","o","v","y">>,
     <<"m","i","l","k">>,
     <<"c","h","e","e","s","e">>,
     <<"b","u","t","t","e","r">>,
     <<"y","o","g","u","r","t">>,
     <<"c","r","e","a","m">>,
     <<"e","g","g">>,
     <<"e","g","g","s">>,
     <<"h","o","n","e","y">> >>

KW_Dairy_free ==
  << <<"m","i","l","k">>,
     <<"c","h","e","e","s","e">>,
     <<"b","u","t","t","e","r">>,
     <<"y","o","g","u","r","t">>,
     <<"c","r","e","a","m">>,
     <<"i","c","e"," ","c","r","e","a","m">> >>

KW_Gluten_free ==
  << <<"b","r","e","a","d">>,
     <<"w","h","e","a","t">>,
     <<"p","a","s","t","a">>,
     <<"f","l","o","u","r">>,
     <<"b","e","e","r">>,
     <<"b","a","r","l","e","y">>,
     <<"r","y","e">>,
     <<"s","e","i","t","a","n">>,
     <<"b","r","e","a","d","c","r","u","m","b","s">>,
     <<"c","r","o","u","t","o","n","s">> >>

KW_Nut_free ==
  << <<"a","l","m","o","n","d">>,
     <<"p","e","a","n","u","t">>,
     <<"p","e","a","n","u","t","s">>,
     <<"c","a","s","h","e","w">>,
     <<"w","a","l","n","u","t">>,
     <<"p","e","c","a","n">>,
     <<"h","a","z","e","l","n","u","t">>,
     <<"b","r","a","z","i","l"," ","n","u","t">>,
     <<"m","a","c","a","d","a","m","i","a">>,
     <<"n","u","t">> >>

KW_Halal ==
  << <<"p","o","r","k">>,
     <<"a","l","c","o","h","o","l">>,
     <<"w","i","n","e">>,
     <<"b","e","e","r">> >>

KW_Kosher ==
  << <<"p","o","r","k">>,
     <<"s","h","r","i","m","p">>,
     <<"c","r","a","b">>,
     <<"l","o","b","s","t","e","r">>,
     <<"s","h","e","l","l","f","i","s","h">> >>

Tags == <<"Dairy-free", "Gluten-free", "Nut-free", "Vegetarian", "Vegan",
          "Halal", "Kosher", "Others">>

\* RESTRICTION_KEYWORDS.get(r, [])
RESTRICTION_KEYWORDS(r) ==
    CASE r = "Vegetarian"  -> KW_Vegetarian
      [] r = "Vegan"       -> KW_Vegan
      [] r = "Dairy-free"  -> KW_Dairy_free
      [] r = "Gluten-free" -> KW_Gluten_free
      [] r = "Nut-free"    -> KW_Nut_free
      [] r = "Halal"       -> KW_Halal
      [] r = "Kosher"      -> KW_Kosher
      [] OTHER             -> <<>>

S_nut   == <<"n","u","t">>
S_donut == <<"d","o","n","u","t">>

\* the exception of line 198: the keyword is skipped (continue)
NoDonutException(kw, name) == FALSE
DonutException(kw, name) == kw = S_nut /\ str_in(S_donut, name)

\* the inner loop `for kw in keywords`, from position i on: TRUE when it
\* reaches `return True`
RECURSIVE keyword_loop(_, _, _)
keyword_loop(name, keywords, i) ==
    IF i > Len(keywords) THEN FALSE
    ELSE IF str_in(keywords[i], name) /\ ~DonutException(keywords[i], name)
         THEN TRUE
         ELSE keyword_loop(name, keywords, i + 1)

\* the outer loop `for r in restrictions_list`, from position j on
RECURSIVE restriction_loop(_, _, _)
restriction_loop(name, restrictions_list, j) ==
    IF j > Len(restrictions_list) THEN FALSE
    ELSE IF keyword_loop(name, RESTRICTION_KEYWORDS(restrictions_list[j]), 1)
         THEN TRUE
         ELSE restriction_loop(name, restrictions_list, j + 1)

\* violates_restrictions(item_name: str, restrictions_list: list) -> bool
violates_restrictions(name_arg, restrictions_list) ==
    IF name_arg = <<>> \/ restrictions_list = <<>> THEN FALSE
    ELSE \E name \in { str_lower(name_arg) } : restriction_loop(name, restrictions_list, 1)

---------------------------------------------------------------------------
(* JSON values, as json.loads builds them *)

JNull   == [t |-> "null"]
JNum(n) == [t |-> "num", n |-> n]
JStr(s) == [t |-> "str", s |-> s]
JArr(a) == [t |-> "arr", a |-> a]
JObj(m) == [t |-> "obj", m |-> m]

EmptyDict == [k \in {} |-> JNull]

\* isinstance(v, dict), isinstance(v, list), isinstance(v, str)
is_dict(v) == v.t = "obj"
is_list(v) == v.t = "arr"
is_str(v)  == v.t = "str"

\* `k in d` and d.get(k, default) on a dict
has_key(d, k) == k \in DOMAIN d.m
dict_get(d, k, default) == IF has_key(d, k) THEN d.m[k] ELSE default

\* d[k] = v
dict_set(d, k, v) ==
    JObj([x \in (DOMAIN d.m) \cup {k} |-> IF x = k THEN v ELSE d.m[x]])

\* bool(v): the truth value Python gives a JSON value
truthy(v) ==
    CASE v.t = "null" -> FALSE
      [] v.t = "num"  -> v.n # 0
      [] v.t = "str"  -> v.s # <<>>
      [] v.t = "arr"  -> v.a # <<>>
      [] v.t = "obj"  -> DOMAIN v.m # {}

\* `name or json.dumps(it)`: the name when truthy, else the dump of the item
name_or_dump(name, it) == IF truthy(name) THEN name ELSE [t |-> "dump", of |-> it]

---------------------------------------------------------------------------
(* filter_items_by_restrictions *)

NutritionKeys == <<"calories_estimate", "protein_g", "carbs_g", "fat_g">>
TotalsKeys    == <<"calories", "protein_g", "carbs_g", "fat_g">>

\* isinstance(v, (int, float))
is_number(v) == v.t = "num"

\* round(x, 1) of a float held exactly (a multiple of 0.25 or of 0.1), in
\* twentieths: to the nearest tenth, an exact tie going to the even tenth
round1(n) ==
    IF n % 2 = 0 THEN n
    ELSE IF (n \div 2) % 2 = 0 THEN 2 * (n \div 2) ELSE 2 * ((n \div 2) + 1)

\* line 214: name = it.get("name", "") if isinstance(it, dict) else ""
item_name_of(it) == IF is_dict(it) THEN dict_get(it, "name", JStr(<<>>)) ELSE JStr(<<>>)

\* violates_restrictions applied to whatever the name is: a non-empty value that
\* is not a str has no lower() and raises AttributeError
violation_raises(name, restrictions_list) ==
    truthy(name) /\ restrictions_list # <<>> /\ ~is_str(name)
item_violates(name, restrictions_list) ==
    IF is_str(name) THEN violates_restrictions(name.s, restrictions_list) ELSE FALSE

\* a variant of the loop of lines 213-218 that puts a kept item in front of
\* the kept list
RECURSIVE removal_loop_prepending(_, _, _, _)
removal_loop_prepending(items, restrictions_list, i, acc) ==
    IF i > Len(items) THEN acc
    ELSE LET it   == items[i]
             name == item_name_of(it)
         IN IF violation_raises(name, restrictions_list)
            THEN [acc EXCEPT !.raised = TRUE]
            ELSE IF item_violates(name, restrictions_list)
                 THEN removal_loop_prepending(items, restrictions_list, i + 1,
                          [acc EXCEPT !.removed = Append(@, name_or_dump(name, it))])
                 ELSE removal_loop_prepending(items, restrictions_list, i + 1,
                          [acc EXCEPT !.kept = << it >> \o @])

\* the loop of lines 213-218 from position i on; acc = [kept, removed, raised]
RECURSIVE removal_loop(_, _, _, _)
removal_loop(items, restrictions_list, i, acc) ==
    IF i > Len(items) THEN acc
    ELSE LET it   == items[i]
             name == item_name_of(it)
         IN IF violation_raises(name, restrictions_list)
            THEN [acc EXCEPT !.raised = TRUE]
            ELSE IF item_violates(name, restrictions_list)
                 THEN removal_loop(items, restrictions_list, i + 1,
                          [acc EXCEPT !.removed = Append(@, name_or_dump(name, it))])
                 ELSE removal_loop(items, restrictions_list, i + 1,
                          [acc EXCEPT !.kept = Append(@, it)])

\* one `if key in it and isinstance(it[key], (int, float))` of lines 229-240
counts(it, key) == has_key(it, key) /\ is_number(it.m[key])

\* totals[...] += it[key] under that test
add_field(sum, it, key) == IF counts(it, key) THEN sum + it.m[key].n ELSE sum

\* the loop of lines 226-240 from position i on; tot is indexed like
\* NutritionKeys, any is any_numeric; StartTotals is line 224
StartTotals == [tot |-> <<0, 0, 0, 0>>, any |-> FALSE]
RECURSIVE totals_loop(_, _, _)
totals_loop(kept, i, acc) ==
    IF i > Len(kept) THEN acc
    ELSE LET it == kept[i]
         IN IF ~is_dict(it) THEN totals_loop(kept, i + 1, acc)
            ELSE totals_loop(kept, i + 1,
                   [tot |-> << add_field(acc.tot[1], it, "calories_estimate"),
                               add_field(acc.tot[2], it, "protein_g"),
                               add_field(acc.tot[3], it, "carbs_g"),
                               add_field(acc.tot[4], it, "fat_g") >>,
                    any |-> acc.any \/ \E j \in 1..4 : counts(it, NutritionKeys[j])])

\* lines 241-247: the totals object written when any_numeric
totals_object(acc) ==
    JObj([k \in {TotalsKeys[j] : j \in 1..4} |->
            JNum(round1(acc.tot[CHOOSE j \in 1..4 : TotalsKeys[j] = k]))])

\* line 226, `for it in kept`: the list the totals are summed over
all_items(items, kept) == items
summed_items(items, kept) == kept

\* lines 220-251 once the item list is known; a variant that adds the sums
\* to the totals already in the object
reconcile_accumulating(p, items, kept) ==
    LET with_items == dict_set(p, "items", JArr(kept))
        acc        == totals_loop(summed_items(items, kept), 1, StartTotals)
        old        == dict_get(p, "totals", JNull)
        base(j)    == IF is_dict(old) /\ has_key(old, TotalsKeys[j])
                         /\ is_number(old.m[TotalsKeys[j]])
                      THEN old.m[TotalsKeys[j]].n ELSE 0
    IN IF acc.any
       THEN dict_set(with_items, "totals",
                totals_object([tot |-> << acc.tot[1] + base(1), acc.tot[2] + base(2),
                                          acc.tot[3] + base(3), acc.tot[4] + base(4) >>,
                               any |-> TRUE]))
       ELSE with_items
reconcile(p, items, kept) ==
    LET with_items == dict_set(p, "items", JArr(kept))
        acc        == totals_loop(summed_items(items, kept), 1, StartTotals)
    IN IF acc.any THEN dict_set(with_items, "totals", totals_object(acc))
       ELSE with_items

\* a variant without the isinstance(items, list) test of line 209, taking a
\* missing or malformed item list for an empty one
filter_without_list_test(p, restrictions_list) ==
    IF ~is_dict(p) THEN [parsed |-> p, removed |-> <<>>, raised |-> FALSE]
    ELSE LET items == IF is_list(dict_get(p, "items", JNull)) THEN p.m["items"].a ELSE <<>>
             r == removal_loop(items, restrictions_list, 1,
                               [kept |-> <<>>, removed |-> <<>>, raised |-> FALSE])
         IN IF r.raised THEN [parsed |-> p, removed |-> <<>>, raised |-> TRUE]
            ELSE [parsed |-> reconcile(p, items, r.kept), removed |-> r.removed,
                  raised |-> FALSE]

\* filter_items_by_restrictions(parsed, restrictions_list) -> (parsed, removed);
\* raised marks an exception leaving the function
filter_items_by_restrictions(p, restrictions_list) ==
    IF ~is_dict(p) THEN [parsed |-> p, removed |-> <<>>, raised |-> FALSE]
    ELSE IF ~is_list(dict_get(p, "items", JNull))
    THEN [parsed |-> p, removed |-> <<>>, raised |-> FALSE]
    ELSE LET r == removal_loop(p.m["items"].a, restrictions_list, 1,
                               [kept |-> <<>>, removed |-> <<>>, raised |-> FALSE])
         IN IF r.raised THEN [parsed |-> p, removed |-> <<>>, raised |-> TRUE]
            ELSE [parsed |-> reconcile(p, p.m["items"].a, r.kept), removed |-> r.removed,
                  raised |-> FALSE]

---------------------------------------------------------------------------
(* extract_json.  A reply text is a tuple of lexemes: the punctuation
   "{" "}" "[" "]" ",", a key with its colon ("items":), a scalar literal
   (number, string, null), or a word of prose.  String literals and prose
   hold no brace, so the first "{" and the last "}" of the text are lexemes. *)

TLB  == [tok |-> "{"]
TRB  == [tok |-> "}"]
TLK  == [tok |-> "["]
TRK  == [tok |-> "]"]
TCM  == [tok |-> ","]
TWord == [tok |-> "word"]
TKey(k) == [tok |-> "key", k |-> k]
TVal(v) == [tok |-> "val", v |-> v]

Fail == [ok |-> FALSE]
Ok(v, rest) == [ok |-> TRUE, v |-> v, rest |-> rest]

\* json.loads, by recursive descent: parse_value reads one value off the front
\* of ts; parse_members reads the members of an object after "{" (first: no
\* member read yet); parse_elems the elements of an array after "["
RECURSIVE parse_value(_), parse_members(_, _, _), parse_elems(_, _, _)
parse_value(ts) ==
    IF ts = <<>> THEN Fail
    ELSE CASE Head(ts).tok = "val" -> Ok(Head(ts).v, Tail(ts))
           [] Head(ts).tok = "{"   -> parse_members(Tail(ts), EmptyDict, TRUE)
           [] Head(ts).tok = "["   -> parse_elems(Tail(ts), <<>>, TRUE)
           [] OTHER                -> Fail

after_member(m, key, r) ==
    IF ~r.ok \/ r.rest = <<>> THEN Fail
    ELSE CASE Head(r.rest).tok = "}" ->
                Ok(dict_set(JObj(m), key, r.v), Tail(r.rest))
           [] Head(r.rest).tok = "," ->
                parse_members(Tail(r.rest), dict_set(JObj(m), key, r.v).m, FALSE)
           [] OTHER -> Fail

parse_members(ts, m, first) ==
    IF ts = <<>> THEN Fail
    ELSE IF first /\ Head(ts).tok = "}" THEN Ok(JObj(m), Tail(ts))
    ELSE IF Head(ts).tok = "key" THEN after_member(m, Head(ts).k, parse_value(Tail(ts)))
    ELSE Fail

after_elem(a, r) ==
    IF ~r.ok \/ r.rest = <<>> THEN Fail
    ELSE CASE Head(r.rest).tok = "]" -> Ok(JArr(Append(a, r.v)), Tail(r.rest))
           [] Head(r.rest).tok = "," -> parse_elems(Tail(r.rest), Append(a, r.v), FALSE)
           [] OTHER -> Fail

parse_elems(ts, a, first) ==
    IF ts = <<>> THEN Fail
    ELSE IF first /\ Head(ts).tok = "]" THEN Ok(JArr(a), Tail(ts))
    ELSE after_elem(a, parse_value(ts))

\* json.loads(text): the value, or ok = FALSE for the exception
whole_text(r) == IF r.ok /\ r.rest = <<>> THEN [ok |-> TRUE, v |-> r.v] ELSE Fail
json_loads(text) == whole_text(parse_value(text))

\* re.search(r"\{[\s\S]*\}", text): the greedy span from the first "{" to the
\* last "}", or <<>> when there is no match
first_brace(text) == CHOOSE i \in 1..Len(text) :
                        text[i] = TLB /\ \A j \in 1..(i - 1) : text[j] # TLB
last_brace(text)  == CHOOSE i \in 1..Len(text) :
                        text[i] = TRB /\ \A j \in (i + 1)..Len(text) : text[j] # TRB
next_brace(text)  == CHOOSE i \in (first_brace(text) + 1)..Len(text) :
                        text[i] = TRB /\ \A j \in (first_brace(text) + 1)..(i - 1) : text[j] # TRB
span_end_lazy(text) == next_brace(text)
span_end(text) == last_brace(text)
has_span(text) ==
    /\ \E i \in 1..Len(text) : text[i] = TLB
    /\ \E i \in 1..Len(text) : text[i] = TRB
    /\ first_brace(text) < last_brace(text)
brace_span(text) == SubSeq(text, first_brace(text), span_end(text))

\* {"raw": text}
raw_sentinel(text) == JObj([k \in {"raw"} |-> JStr(text)])

\* the except branch of extract_json (lines 154-160)
extract_fallback(text) ==
    IF has_span(text)
    THEN IF json_loads(brace_span(text)).ok THEN json_loads(brace_span(text)).v
         ELSE raw_sentinel(text)
    ELSE raw_sentinel(text)

\* extract_json(text).  text is a JSON value: a str (JStr of lexemes) or, when
\* the reply's content is null, None, for which json.loads raises TypeError
\* inside the try and re.search raises it again outside: raised = TRUE
extract_json(text) ==
    IF ~is_str(text) THEN [raised |-> TRUE, v |-> JNull]
    ELSE IF json_loads(text.s).ok THEN [raised |-> FALSE, v |-> json_loads(text.s).v]
    ELSE [raised |-> FALSE, v |-> extract_fallback(text.s)]

---------------------------------------------------------------------------
(* Helpers for numeric parsing *)

DigitOf == "0" :> 0 @@ "1" :> 1 @@ "2" :> 2 @@ "3" :> 3 @@ "4" :> 4
           @@ "5" :> 5 @@ "6" :> 6 @@ "7" :> 7 @@ "8" :> 8 @@ "9" :> 9
is_digit(c) == c \in DOMAIN DigitOf
is_space(c) == c = " "

\* str.strip()
RECURSIVE lstrip(_)
lstrip(s) == IF s # <<>> /\ is_space(Head(s)) THEN lstrip(Tail(s)) ELSE s
RECURSIVE rstrip(_)
rstrip(s) ==
    IF s # <<>> /\ is_space(s[Len(s)]) THEN rstrip(SubSeq(s, 1, Len(s) - 1)) ELSE s
str_strip(s) == rstrip(lstrip(s))

all_digits(s) == s # <<>> /\ \A i \in 1..Len(s) : is_digit(s[i])

\* re.match(r"^-?\d+(\.\d+)?$", s)
numeric_re(s) ==
    LET body == IF s # <<>> /\ s[1] = "-" THEN Tail(s) ELSE s
        dots == { i \in 1..Len(body) : body[i] = "." }
    IN IF dots = {} THEN all_digits(body)
       ELSE /\ Cardinality(dots) = 1
            /\ \E i \in dots : /\ all_digits(SubSeq(body, 1, i - 1))
                               /\ all_digits(SubSeq(body, i + 1, Len(body)))

\* the integer a digit string denotes, and ten to the k
RECURSIVE digits_value(_)
digits_value(s) ==
    IF s = <<>> THEN 0 ELSE 10 * digits_value(SubSeq(s, 1, Len(s) - 1)) + DigitOf[s[Len(s)]]
RECURSIVE pow10(_)
pow10(k) == IF k = 0 THEN 1 ELSE 10 * pow10(k - 1)

\* float(s) of a string numeric_re accepts, in twentieths (exact for the
\* fractions the replies use: multiples of 0.05)
float_of(s) ==
    LET neg  == s[1] = "-"
        body == IF neg THEN Tail(s) ELSE s
        dot  == IF \E i \in 1..Len(body) : body[i] = "."
                THEN CHOOSE i \in 1..Len(body) : body[i] = "." ELSE Len(body) + 1
        int  == SubSeq(body, 1, dot - 1)
        frac == SubSeq(body, dot + 1, Len(body))
        mag  == 20 * digits_value(int) + (20 * digits_value(frac)) \div pow10(Len(frac))
    IN IF neg THEN 0 - mag ELSE mag

\* parse_float_safe(v): JNull stands for None
parse_float_safe(v) ==
    CASE v.t = "null" -> JNull
      [] v.t = "num"  -> v
      [] v.t = "str"  ->
            IF str_strip(v.s) = <<>> THEN JNull
            ELSE IF numeric_re(str_strip(v.s)) THEN JNum(float_of(str_strip(v.s)))
            ELSE JNull
      [] OTHER        -> JNull

\* format_one_decimal_str(v): f"{t:.1f}" of a parsed number (fixed1, in
\* twentieths), else str(v), else ""
format_one_decimal_str(v) ==
    IF parse_float_safe(v) = JNull
    THEN IF v # JNull /\ v # JStr(<<>>) THEN [t |-> "text", of |-> v] ELSE JStr(<<>>)
    ELSE [t |-> "fixed1", n |-> round1(parse_float_safe(v).n)]

\* one pass of the loop of item_has_nutrition (lines 283-288)
field_is_numeric(v) ==
    \/ is_number(v)
    \/ is_str(v) /\ str_strip(v.s) # <<>> /\ numeric_re(str_strip(v.s))

\* item_has_nutrition(it)
item_has_nutrition(it) ==
    IF ~is_dict(it) THEN FALSE
    ELSE \E j \in 1..4 : field_is_numeric(dict_get(it, NutritionKeys[j], JNull))

---------------------------------------------------------------------------
(* The Analyze action: lines 303-423 *)

\* line 310: resp.get("choices", [{}])[0].get("message", {}).get("content", "");
\* raised stands for the AttributeError, IndexError, TypeError or KeyError of a
\* step that does not apply
content_of(resp) ==
    IF ~is_dict(resp) THEN [raised |-> TRUE, v |-> JNull]
    ELSE LET choices == dict_get(resp, "choices", JArr(<< JObj(EmptyDict) >>))
         IN IF ~is_list(choices) \/ choices.a = <<>> THEN [raised |-> TRUE, v |-> JNull]
            ELSE IF ~is_dict(choices.a[1]) THEN [raised |-> TRUE, v |-> JNull]
            ELSE LET message == dict_get(choices.a[1], "message", JObj(EmptyDict))
                 IN IF ~is_dict(message) THEN [raised |-> TRUE, v |-> JNull]
                    ELSE [raised |-> FALSE, v |-> dict_get(message, "content", JStr(<<>>))]

\* lines 339-344: all four keys present and all four values parse to 0.0
all_four_zero(it) ==
    /\ \A j \in 1..4 : has_key(it, NutritionKeys[j])
    /\ \A j \in 1..4 : parse_float_safe(it.m[NutritionKeys[j]]) = JNum(0)
\* a variant that does not look at fat_g
three_zero(it) ==
    /\ \A j \in 1..4 : has_key(it, NutritionKeys[j])
    /\ \A j \in 1..3 : parse_float_safe(it.m[NutritionKeys[j]]) = JNum(0)
treated_as_missing(it) == all_four_zero(it)

\* lines 349-359: the row of an item
row_of(it) ==
    [Name      |-> IF truthy(dict_get(it, "name", JStr(<<>>)))
                   THEN dict_get(it, "name", JStr(<<>>)) ELSE JStr(<<>>),
     Quantity  |-> dict_get(it, "quantity_text", JStr(<<>>)),
     Grams     |-> dict_get(it, "estimated_grams", JStr(<<>>)),
     Calories  |-> format_one_decimal_str(dict_get(it, "calories_estimate", JNull)),
     Protein   |-> format_one_decimal_str(dict_get(it, "protein_g", JNull)),
     Carbs     |-> format_one_decimal_str(dict_get(it, "carbs_g", JNull)),
     Fat       |-> format_one_decimal_str(dict_get(it, "fat_g", JNull))]

\* the loop of lines 323-359 from position i on; acc = [missing, rows]
RECURSIVE row_loop(_, _, _)
row_loop(items, i, acc) ==
    IF i > Len(items) THEN acc
    ELSE LET it == items[i]
         IN IF ~is_dict(it) THEN row_loop(items, i + 1, acc)
            ELSE IF ~item_has_nutrition(it) \/ treated_as_missing(it)
            THEN row_loop(items, i + 1,
                    [acc EXCEPT !.missing =
                        Append(@, name_or_dump(dict_get(it, "name", JStr(<<>>)), it))])
            ELSE row_loop(items, i + 1, [acc EXCEPT !.rows = Append(@, row_of(it))])

\* ", ".join(names) raises TypeError when an entry is not a str
join_raises(names) == \E i \in 1..Len(names) : names[i].t \notin {"str", "dump"}

\* lines 378-388: the totals table, when totals is a dict
NoTable == [t |-> "none"]
totals_table(p) ==
    IF is_dict(dict_get(p, "totals", JNull))
    THEN [t |-> "table",
          Calories |-> format_one_decimal_str(dict_get(p.m["totals"], "calories", JNull)),
          Protein  |-> format_one_decimal_str(dict_get(p.m["totals"], "protein_g", JNull)),
          Carbs    |-> format_one_decimal_str(dict_get(p.m["totals"], "carbs_g", JNull)),
          Fat      |-> format_one_decimal_str(dict_get(p.m["totals"], "fat_g", JNull))]
    ELSE NoTable

\* line 320: the filtered value is a dict with an item list
has_item_list(p) == is_dict(p) /\ is_list(dict_get(p, "items", JNull))

Raise(msgs) == [raised |-> TRUE, msgs |-> msgs]
Shown(msgs) == [raised |-> FALSE, msgs |-> msgs]

\* lines 320-390: the breakdown, or the message shown instead of it
render_breakdown(p, rl) ==
    IF ~has_item_list(p) THEN Shown(<< "error: could not parse nutrition items" >>)
    ELSE IF rl.rows = <<>>
    THEN IF rl.missing # <<>>
         THEN IF join_raises(rl.missing) THEN Raise(<<>>)
              ELSE Shown(<< "error: items without nutrition details" >>)
         ELSE Shown(<< "error: no analyzable nutrition items" >>)
    ELSE Shown(<< "table: items" >>
               \o (IF totals_table(p) # NoTable THEN << "table: totals" >> ELSE <<>>))

\* lines 393-403: suggestions = parsed_filtered.get("suggestions") or []
render_suggestions(p) ==
    LET suggestions == IF is_dict(p) THEN dict_get(p, "suggestions", JNull) ELSE JNull
    IN IF truthy(suggestions) /\ is_list(suggestions) THEN << "write: suggestions" >>
       ELSE << "info: no suggestions" >>

\* lines 407-418: the removed-items warning and the missing-nutrition info
render_lists(removed, missing) ==
    LET warn == IF removed # <<>> THEN << "warning: removed items" >> ELSE <<>>
    IN IF removed # <<>> /\ join_raises(removed) THEN Raise(<<>>)
       ELSE IF missing = <<>> THEN Shown(warn)
       ELSE IF join_raises(missing) THEN Raise(warn)
       ELSE Shown(warn \o << "info: missing nutrition" >>)

\* lines 420-423: what the except clauses show
HttpErrorMsg == "error: HTTP error"
ExceptionMsg == "error: Error"

\* the state an Analyze run leaves
AnalyzeState(c, pin, p, removed, missing, rows, table, msgs) ==
    [content |-> c, parsed_in |-> pin, parsed |-> p, removed_items |-> removed,
     missing_nutrition |-> missing, shown_rows |-> rows, totals_row |-> table,
     messages |-> msgs]

\* lines 316-418, after the filter has returned f
analyze_render(c, pin, f) ==
    LET p  == f.parsed
        rl == IF has_item_list(p)
              THEN row_loop(p.m["items"].a, 1, [missing |-> <<>>, rows |-> <<>>])
              ELSE [missing |-> <<>>, rows |-> <<>>]
        b  == render_breakdown(p, rl)
        l  == render_lists(f.removed, rl.missing)
        tt == IF rl.rows # <<>> THEN totals_table(p) ELSE NoTable
    IN IF b.raised
       THEN AnalyzeState(c, pin, p, f.removed, rl.missing, rl.rows, NoTable,
                         b.msgs \o << ExceptionMsg >>)
       ELSE IF l.raised
       THEN AnalyzeState(c, pin, p, f.removed, rl.missing, rl.rows, tt,
                         b.msgs \o render_suggestions(p) \o l.msgs \o << ExceptionMsg >>)
       ELSE AnalyzeState(c, pin, p, f.removed, rl.missing, rl.rows, tt,
                         b.msgs \o render_suggestions(p) \o l.msgs)

Failed(c, pin, p, msg) == AnalyzeState(c, pin, p, <<>>, <<>>, <<>>, NoTable, << msg >>)

\* lines 311-314, once the content is known
analyze_content(c, restrictions_list) ==
    LET e == extract_json(c)
    IN IF e.raised THEN Failed(c, JNull, JNull, ExceptionMsg)
       ELSE LET f == filter_items_by_restrictions(e.v, restrictions_list)
            IN IF f.raised THEN Failed(c, e.v, JNull, ExceptionMsg)
               ELSE analyze_render(c, e.v, f)

\* the body of `if st.button("Analyze")` for an outcome of call_azure_general:
\* the call raises (requests.post: Timeout, ConnectionError; raise_for_status:
\* HTTPError; r.json(): ValueError) or returns the decoded body
analyze(outcome, restrictions_list) ==
    CASE outcome.kind = "http_error" -> Failed(JNull, JNull, JNull, HttpErrorMsg)
      [] outcome.kind = "ok" ->
            IF content_of(outcome.body).raised
            THEN Failed(JNull, JNull, JNull, ExceptionMsg)
            ELSE analyze_content(content_of(outcome.body).v, restrictions_list)
      [] OTHER -> Failed(JNull, JNull, JNull, ExceptionMsg)

---------------------------------------------------------------------------
(* The Recipes action: lines 446-488 *)

\* `for ing in (r.get(key, []) or [])`: a number that is not 0 cannot be iterated
iter_raises(r, key) == is_number(dict_get(r, key, JArr(<<>>))) /\ truthy(dict_get(r, key, JArr(<<>>)))

\* the loop of lines 458-479 from position i on; r.get raises on a recipe that
\* is not a dict
RECURSIVE recipe_loop(_, _, _)
recipe_loop(recipes, i, msgs) ==
    IF i > Len(recipes) THEN Shown(msgs)
    ELSE IF ~is_dict(recipes[i]) THEN Raise(msgs)
    ELSE IF iter_raises(recipes[i], "ingredients") \/ iter_raises(recipes[i], "steps")
    THEN Raise(Append(msgs, "subheader: recipe"))
    ELSE recipe_loop(recipes, i + 1, Append(msgs, "subheader: recipe"))

RecipeState(c, p, msgs) ==
    AnalyzeState(c, JNull, p, <<>>, <<>>, <<>>, NoTable, msgs)

\* lines 453-483, once the content is known
recipes_content(c) ==
    LET e == extract_json(c)
    IN IF e.raised THEN RecipeState(c, JNull, << ExceptionMsg >>)
       ELSE IF is_dict(e.v) /\ is_list(dict_get(e.v, "recipes", JNull))
       THEN LET l == recipe_loop(e.v.m["recipes"].a, 1, <<>>)
            IN RecipeState(c, e.v, IF l.raised THEN Append(l.msgs, ExceptionMsg) ELSE l.msgs)
       ELSE RecipeState(c, e.v, << "info: could not parse recipes", "write: raw answer" >>)

\* the body of `if recipe_type` for an outcome of call_azure_general
recipes(outcome) ==
    CASE outcome.kind = "http_error" -> RecipeState(JNull, JNull, << HttpErrorMsg >>)
      [] outcome.kind = "ok" ->
            IF content_of(outcome.body).raised
            THEN RecipeState(JNull, JNull, << ExceptionMsg >>)
            ELSE recipes_content(content_of(outcome.body).v)
      [] OTHER -> RecipeState(JNull, JNull, << ExceptionMsg >>)

---------------------------------------------------------------------------
(* Replies of the model endpoint: the inputs the handlers are run on *)

N_Grilled_chicken_breast == <<"G","r","i","l","l","e","d"," ","c","h","i","c","k","e","n"," ","b","r","e","a","s","t">>
N_donut == <<"d","o","n","u","t">>
N_scrambled_eggs == <<"s","c","r","a","m","b","l","e","d"," ","e","g","g","s">>
N_steamed_broccoli == <<"s","t","e","a","m","e","d"," ","b","r","o","c","c","o","l","i">>
S_toast == <<"T","o","a","s","t">>
S_abc == <<"a","b","c">>
S_more_veg == <<"A","d","d"," ","m","o","r","e"," ","v","e","g","e","t","a","b","l","e","s">>

Absent == [t |-> "absent"]

\* the dict with the given <<key, value>> pairs, a pair with Absent left out
MkObj(pairs) ==
    JObj([k \in {pairs[i][1] : i \in {j \in 1..Len(pairs) : pairs[j][2] # Absent}} |->
            pairs[CHOOSE i \in 1..Len(pairs) : pairs[i][1] = k][2]])

\* an item of the schema of build_prompt; f holds the four nutrition fields
MkItem(name, f) ==
    MkObj(<< <<"name", name>>, <<"quantity_text", JStr(<<"1"," ","s","e","r","v","i","n","g">>)>>,
             <<"calories_estimate", f[1]>>, <<"protein_g", f[2]>>,
             <<"carbs_g", f[3]>>, <<"fat_g", f[4]>> >>)

\* nutrition fields of an item (calories_estimate, protein_g, carbs_g, fat_g)
NoFields     == <<Absent, Absent, Absent, Absent>>
TieFields    == <<JNum(5), JNum(15), Absent, JNum(5)>>              \* 0.25, 0.75, -, 0.25
StringFields == <<JStr(<<"1","2","0">>), Absent, Absent, Absent>>             \* "120"
MixedFields  == <<JNum(2000), JNum(5), JStr(<<"1",".","5">>), JStr(S_abc)>>   \* 100, 0.25, "1.5", "abc"

\* items of the schema
SchemaItems ==
    { MkItem(JStr(N_Grilled_chicken_breast), TieFields),
      MkItem(JStr(N_scrambled_eggs), MixedFields),
      MkItem(JStr(N_scrambled_eggs), NoFields),
      MkItem(JStr(N_steamed_broccoli), TieFields),
      MkItem(JStr(N_steamed_broccoli), StringFields),
      MkItem(JStr(N_steamed_broccoli), NoFields) }

\* items that are not of the schema: not a dict, a dict without a name, a
\* dict whose name is a number
OddItems ==
    { JStr(N_donut),
      MkObj(<< <<"calories_estimate", JNum(40)>> >>),
      MkObj(<< <<"name", JNum(20)>>, <<"calories_estimate", JNum(40)>> >>) }

MaxItems == 2

\* lists of at most n elements of S
RECURSIVE ListsUpTo(_, _)
ListsUpTo(S, n) ==
    IF n = 0 THEN { <<>> }
    ELSE LET shorter == ListsUpTo(S, n - 1)
         IN shorter \cup { Append(l, x) : l \in {s \in shorter : Len(s) = n - 1}, x \in S }

\* the totals object the model sends with its reply (300 kcal, 20, 30, 10 g)
ModelTotals ==
    MkObj(<< <<"calories", JNum(6000)>>, <<"protein_g", JNum(400)>>,
             <<"carbs_g", JNum(600)>>, <<"fat_g", JNum(200)>> >>)

MkReply(items, totals) ==
    MkObj(<< <<"items", JArr(items)>>, <<"totals", totals>>,
             <<"suggestions", JArr(<< JStr(S_more_veg) >>)>> >>)

\* parsed values without an item list: not a dict; the sentinel of
\* extract_json; items that is not a list
NoItemList ==
    { JNull, JNum(20), JStr(S_abc), JArr(<< MkItem(JStr(N_donut), <<JNum(5), Absent, Absent, Absent>>) >>),
      MkObj(<< <<"raw", JStr(S_abc)>> >>),
      MkObj(<< <<"items", JNull>>, <<"totals", ModelTotals>> >>),
      MkObj(<< <<"items", JStr(N_donut)>> >>),
      MkObj(<< <<"recipes", JArr(<<>>)>> >>) }

FilterInputs ==
    { MkReply(l, tt) : l \in ListsUpTo((SchemaItems \cup OddItems), MaxItems), tt \in {Absent, ModelTotals} }
    \cup NoItemList

MaxRestrictions == 2

\* the selections of st.multiselect with at most n tags, in option order
RECURSIVE SelectionsFrom(_, _, _)
SelectionsFrom(tags, i, n) ==
    IF i > Len(tags) \/ n = 0 THEN { <<>> }
    ELSE SelectionsFrom(tags, i + 1, n)
         \cup { <<tags[i]>> \o s : s \in SelectionsFrom(tags, i + 1, n - 1) }
RestrictionLists == SelectionsFrom(Tags, 1, MaxRestrictions)

\* the tags with a keyword in some item name of the replies, and Others
ReplyRestrictionLists == SelectionsFrom(<<"Vegetarian", "Vegan", "Others">>, 1, MaxRestrictions)

---------------------------------------------------------------------------
(* The texts and response bodies the actions are run on *)

\* 'Here you go: {"items": []} Thanks!' and 'not json at all'
Text_wrapped_items == << TWord, TWord, TWord, TLB, TKey("items"), TLK, TRK, TRB, TWord >>
Text_not_json      == << TWord, TWord, TWord, TWord >>

\* the order in which a reply writes its keys
KeyOrder == << "name", "quantity_text", "estimated_grams", "calories_estimate",
               "calories", "protein_g", "carbs_g", "fat_g", "items", "totals",
               "suggestions", "recipes", "ingredients", "steps", "raw",
               "choices", "message", "content" >>

\* the text of a JSON value, as the model endpoint writes it
RECURSIVE Ser(_), SerElems(_, _), SerMembers(_, _, _)
Ser(v) ==
    CASE v.t = "arr" -> << TLK >> \o SerElems(v.a, 1) \o << TRK >>
      [] v.t = "obj" -> << TLB >> \o SerMembers(v.m, 1, TRUE) \o << TRB >>
      [] OTHER       -> << TVal(v) >>
SerElems(a, i) ==
    IF i > Len(a) THEN <<>>
    ELSE (IF i > 1 THEN << TCM >> ELSE <<>>) \o Ser(a[i]) \o SerElems(a, i + 1)
SerMembers(m, i, first) ==
    IF i > Len(KeyOrder) THEN <<>>
    ELSE IF KeyOrder[i] \notin DOMAIN m THEN SerMembers(m, i + 1, first)
    ELSE (IF first THEN <<>> ELSE << TCM >>) \o << TKey(KeyOrder[i]) >>
         \o Ser(m[KeyOrder[i]]) \o SerMembers(m, i + 1, FALSE)

\* prose before and after the JSON
InProse(text) == << TWord, TWord >> \o text \o << TWord >>

ZeroStrings   == <<JStr(<<"0">>), JStr(<<"0",".","0">>), JStr(<<" ","0"," ">>), JNum(0)>>   \* "0", "0.0", " 0 ", 0
ZeroButFat    == <<JNum(0), JNum(0), JNum(0), JNum(20)>>

AnalyzeItems ==
    { MkItem(Absent, <<JNum(0), JNum(0), JNum(0), JNum(0)>>),
      MkItem(JStr(N_steamed_broccoli), ZeroStrings),
      MkItem(JStr(N_steamed_broccoli), <<JNum(0), JNum(0), JNum(0), Absent>>),
      MkItem(JStr(N_steamed_broccoli), ZeroButFat),
      MkItem(JStr(N_steamed_broccoli), NoFields),
      MkItem(JStr(N_scrambled_eggs), MixedFields),
      MkItem(JNum(20), StringFields),
      JStr(N_donut) }

\* replies to the analysis prompt: the bare JSON without totals, and the JSON
\* with the model's totals inside prose
AnalyzeTexts ==
    { Ser(MkReply(l, Absent)) : l \in ListsUpTo(AnalyzeItems, MaxItems) }
    \cup { InProse(Ser(MkReply(l, ModelTotals))) : l \in ListsUpTo(AnalyzeItems, MaxItems) }
    \cup { <<>>, Text_not_json,
           Ser(JArr(<< MkItem(JStr(N_steamed_broccoli), TieFields) >>)),
           Ser(MkObj(<< <<"items", JArr(<< MkItem(JStr(N_steamed_broccoli), TieFields) >>)>>,
                        <<"suggestions", JStr(S_more_veg)>> >>)) }

MkRecipe(name, ingredients) ==
    MkObj(<< <<"name", name>>, <<"ingredients", ingredients>>,
             <<"steps", JArr(<< JStr(S_abc) >>)>> >>)

\* replies to the recipe prompt
RecipeTexts ==
    { Ser(MkObj(<< <<"recipes", JArr(l)>> >>)) :
        l \in ListsUpTo({ MkRecipe(JStr(S_toast), JArr(<< JStr(S_abc) >>)),
                          MkRecipe(Absent, JNull),
                          MkRecipe(JStr(S_toast), JNum(20)),
                          JStr(S_toast) }, MaxItems) }
    \cup { <<>>, Text_not_json,
           InProse(Ser(MkObj(<< <<"recipes", JArr(<< MkRecipe(JStr(S_toast), JNull) >>)>> >>))),
           Ser(MkObj(<< <<"recipes", JNull>> >>)) }

\* the decoded body of a chat completion whose message has the given content
ChatBody(c) ==
    MkObj(<< <<"choices", JArr(<< MkObj(<< <<"message", MkObj(<< <<"content", c>> >>)>> >>) >>)>> >>)

\* bodies of a successful response that are not a completion with a text
OddBodies ==
    { JObj(EmptyDict),                                   \* no choices
      MkObj(<< <<"choices", JArr(<<>>)>> >>),            \* empty choices
      MkObj(<< <<"choices", JNull>> >>),
      MkObj(<< <<"choices", JArr(<< JObj(EmptyDict) >>)>> >>),
      MkObj(<< <<"choices", JArr(<< MkObj(<< <<"message", JNull>> >>) >>)>> >>),
      ChatBody(JNull),
      JArr(<<>>) }

\* how a call of call_azure_general ends (lines 145-147)
CallFailures ==
    { [kind |-> "timeout"], [kind |-> "connection_error"], [kind |-> "http_error"],
      [kind |-> "body_not_json"] }
Outcomes(texts) ==
    CallFailures \cup { [kind |-> "ok", body |-> b] : b \in OddBodies }
    \cup { [kind |-> "ok", body |-> ChatBody(JStr(t))] : t \in texts }

\* how the call of an Analyze action, and of a Recipes action, can end
AnalyzeOutcomes == Outcomes(AnalyzeTexts)
RecipeOutcomes  == Outcomes(RecipeTexts)

\* requests.post calls after the first: a variant that posts once more when
\* the call has failed
retry_on_failure(outcome) == IF outcome.kind = "ok" THEN 0 ELSE 1
\* lines 145-147 hold one requests.post and no loop; what it raises leaves
\* call_azure_general and the try block of the action
retries(outcome) == 0

---------------------------------------------------------------------------
(* The application: one script run per interaction *)

\* no call has ended in the running action
NoResponse == [kind |-> "none"]

Ready == {"idle", "analyzed", "recipes_shown"}
RecipeTypes == {"breakfast", "lunch", "dinner"}

Init ==
    /\ pc = "idle"
    /\ restrictions = <<>>
    /\ content = JNull
    /\ parsed_in = JNull
    /\ parsed = JNull
    /\ removed_items = <<>>
    /\ prev_out = <<>>
    /\ missing_nutrition = <<>>
    /\ shown_rows = <<>>
    /\ totals_row = NoTable
    /\ messages = <<>>
    /\ requests = 0
    /\ response = NoResponse
    /\ item_name = <<>>
    /\ verdict = FALSE

\* a rerun renders nothing of the previous run
Cleared ==
    /\ content' = JNull
    /\ parsed_in' = JNull
    /\ parsed' = JNull
    /\ removed_items' = <<>>
    /\ missing_nutrition' = <<>>
    /\ shown_rows' = <<>>
    /\ totals_row' = NoTable
    /\ messages' = <<>>
    /\ UNCHANGED << prev_out, item_name, verdict >>

\* the user changes the multiselect (line 50): a rerun with no button pressed
SelectRestrictions ==
    /\ pc \in Ready
    /\ \E r \in ReplyRestrictionLists : r # restrictions /\ restrictions' = r
    /\ pc' = "idle"
    /\ requests' = 0
    /\ response' = NoResponse
    /\ Cleared

\* st.button("Analyze") pressed: the run reaches requests.post (line 145)
AnalyzeClick ==
    /\ pc \in Ready
    /\ pc' = "analyze"
    /\ requests' = 1
    /\ response' = NoResponse
    /\ Cleared
    /\ UNCHANGED restrictions

Leaves(st) ==
    /\ content' = st.content
    /\ parsed_in' = st.parsed_in
    /\ parsed' = st.parsed
    /\ removed_items' = st.removed_items
    /\ missing_nutrition' = st.missing_nutrition
    /\ shown_rows' = st.shown_rows
    /\ totals_row' = st.totals_row
    /\ messages' = st.messages

\* the call ends and the run completes
AnalyzeReturn ==
    /\ pc = "analyze"
    /\ \E outcome \in AnalyzeOutcomes :
          /\ response' = outcome
          /\ requests' = requests + retries(outcome)
          /\ \E st \in { analyze(outcome, restrictions) } : Leaves(st)
    /\ pc' = "analyzed"
    /\ UNCHANGED << restrictions, prev_out, item_name, verdict >>

\* st.button("Breakfast" / "Lunch" / "Dinner") pressed
RecipeClick ==
    /\ pc \in Ready
    /\ pc' \in RecipeTypes
    /\ requests' = 1
    /\ response' = NoResponse
    /\ Cleared
    /\ UNCHANGED restrictions

RecipeReturn ==
    /\ pc \in RecipeTypes
    /\ \E outcome \in RecipeOutcomes :
          /\ response' = outcome
          /\ requests' = requests + retries(outcome)
          /\ \E st \in { recipes(outcome) } : Leaves(st)
    /\ pc' = "recipes_shown"
    /\ UNCHANGED << restrictions, prev_out, item_name, verdict >>

Next ==
    \/ SelectRestrictions
    \/ AnalyzeClick
    \/ AnalyzeReturn
    \/ RecipeClick
    \/ RecipeReturn

Spec == Init /\ [][Next]_vars

\* requests.post has timeout=60 (line 145) and the handlers have no loop over
\* unbounded data: a run that has started comes to its end
SpecLive == Spec /\ WF_vars(AnalyzeReturn) /\ WF_vars(RecipeReturn)

---------------------------------------------------------------------------
(* Harness: filter_items_by_restrictions applied once, then again to its own
   output *)

InitFilter ==
    /\ pc = "filter_input"
    /\ restrictions \in ReplyRestrictionLists
    /\ parsed \in FilterInputs
    /\ parsed_in = parsed
    /\ removed_items = <<>>
    /\ prev_out = <<>>
    /\ content = JNull
    /\ missing_nutrition = <<>>
    /\ shown_rows = <<>>
    /\ totals_row = NoTable
    /\ messages = <<>>
    /\ requests = 0
    /\ response = NoResponse
    /\ item_name = <<>>
    /\ verdict = FALSE

FilterRun(from, to) ==
    /\ pc = from
    /\ \E out \in { filter_items_by_restrictions(parsed, restrictions) } :
          /\ pc' = IF out.raised THEN "filter_raised" ELSE to
          /\ parsed' = out.parsed
          /\ removed_items' = out.removed
          /\ prev_out' = IF from = "filter_input" THEN <<>> ELSE <<parsed, removed_items>>
    /\ UNCHANGED << restrictions, content, parsed_in, missing_nutrition, shown_rows,
                    totals_row, messages, requests, response, item_name, verdict >>

FilterOnce  == FilterRun("filter_input", "filter_once")
FilterAgain == FilterRun("filter_once", "filter_twice")

NextFilter == FilterOnce \/ FilterAgain
SpecFilter == InitFilter /\ [][NextFilter]_vars

---------------------------------------------------------------------------
(* Harness: violates_restrictions on a name, and the filter on a reply whose
   only item has that name *)

N_peanut_donut == <<"p","e","a","n","u","t"," ","d","o","n","u","t">>

FixedNames ==
    { <<>>, N_Grilled_chicken_breast, N_donut, N_scrambled_eggs,
      N_steamed_broccoli, N_peanut_donut,
      <<"W","a","l","n","u","t"," ","c","a","k","e">>,    \* Walnut cake
      <<"r","i","c","e">>,    \* rice
      <<"H","A","M"," ","s","a","n","d","w","i","c","h">>,    \* HAM sandwich
      <<"N","u","t"," ","m","i","x">>,    \* Nut mix
      <<"c","o","c","o","n","u","t"," ","d","o","n","u","t">>,    \* coconut donut
      <<"b","r","a","z","i","l"," ","n","u","t">>,    \* brazil nut
      <<"R","e","d"," ","w","i","n","e">>,    \* Red wine
      <<"c","r","a","b"," ","c","a","k","e">>,    \* crab cake
      <<"I","c","e"," ","C","r","e","a","m">>,    \* Ice Cream
      <<"r","y","e"," ","b","r","e","a","d">>,    \* rye bread
      <<"t","o","f","u">> }    \* tofu

\* names put together from parts, so that keywords arise across part borders
NameParts == { <<"d","o">>, <<"n","u","t">>, <<"p","e","a">>, <<"H","a","m">>,
               <<"e","g","g">>, <<" ">> }
MaxNameParts == 2

RECURSIVE Concat(_)
Concat(parts) == IF parts = <<>> THEN <<>> ELSE Head(parts) \o Concat(Tail(parts))

ViolatesNames ==
    FixedNames \cup { Concat(l) : l \in ListsUpTo(NameParts, MaxNameParts) }

InitViolates ==
    /\ pc = "violates_input"
    /\ item_name \in ViolatesNames
    /\ restrictions \in RestrictionLists
    /\ parsed = MkReply(<< MkItem(JStr(item_name), TieFields) >>, Absent)
    /\ parsed_in = parsed
    /\ verdict = FALSE
    /\ removed_items = <<>>
    /\ prev_out = <<>>
    /\ content = JNull
    /\ missing_nutrition = <<>>
    /\ shown_rows = <<>>
    /\ totals_row = NoTable
    /\ messages = <<>>
    /\ requests = 0
    /\ response = NoResponse

ViolatesCheck ==
    /\ pc = "violates_input"
    /\ pc' = "violates_done"
    /\ verdict' = violates_restrictions(item_name, restrictions)
    /\ \E out \in { filter_items_by_restrictions(parsed, restrictions) } :
          /\ parsed' = out.parsed
          /\ removed_items' = out.removed
    /\ UNCHANGED << restrictions, content, parsed_in, prev_out, missing_nutrition,
                    shown_rows, totals_row, messages, requests, response, item_name >>

NextViolates == ViolatesCheck
SpecViolates == InitViolates /\ [][NextViolates]_vars

---------------------------------------------------------------------------
(* Vocabulary of the properties *)

\* the value has an item list
HasItemList(p) == p.t = "obj" /\ "items" \in DOMAIN p.m /\ p.m["items"].t = "arr"

\* the filter has returned
Filtered == pc \in {"filter_once", "filter_twice"}

\* the items of the filter's result
OutItems == parsed.m["items"].a

\* the field is present in the item and is a JSON number
NumericAt(it, key) == it.t = "obj" /\ key \in DOMAIN it.m /\ it.m[key].t = "num"

\* the field is present and is a string that reads as a decimal number
NumericStringAt(it, key) ==
    /\ it.t = "obj" /\ key \in DOMAIN it.m /\ it.m[key].t = "str"
    /\ parse_float_safe(it.m[key]) # JNull

\* the sum of the field over the items where it is a JSON number
RECURSIVE FieldSum(_, _)
FieldSum(items, key) ==
    IF items = <<>> THEN 0
    ELSE (IF NumericAt(Head(items), key) THEN Head(items).m[key].n ELSE 0)
         + FieldSum(Tail(items), key)

\* the same sum with a numeric string counted as the number it denotes
RECURSIVE FieldSumWithStrings(_, _)
FieldSumWithStrings(items, key) ==
    IF items = <<>> THEN 0
    ELSE (IF NumericAt(Head(items), key) THEN Head(items).m[key].n
          ELSE IF NumericStringAt(Head(items), key)
               THEN parse_float_safe(Head(items).m[key]).n ELSE 0)
         + FieldSumWithStrings(Tail(items), key)

AnyNumeric(items) ==
    \E i \in 1..Len(items), j \in 1..4 : NumericAt(items[i], NutritionKeys[j])
AnyNumericString(items) ==
    \E i \in 1..Len(items), j \in 1..4 : NumericStringAt(items[i], NutritionKeys[j])

\* t is n rounded to one decimal place: a tenth at most 0.05 away
RoundedTo1(t, n) == t % 2 = 0 /\ (t - n) \in {-1, 0, 1}

\* the result carries a totals object whose four fields are the given sums,
\* rounded to one decimal place
TotalsAre(Sum(_, _)) ==
    /\ "totals" \in DOMAIN parsed.m
    /\ parsed.m["totals"].t = "obj"
    /\ DOMAIN parsed.m["totals"].m = {"calories", "protein_g", "carbs_g", "fat_g"}
    /\ \A j \in 1..4 :
          /\ parsed.m["totals"].m[TotalsKeys[j]].t = "num"
          /\ RoundedTo1(parsed.m["totals"].m[TotalsKeys[j]].n,
                        Sum(OutItems, NutritionKeys[j]))

InItems == parsed_in.m["items"].a

---------------------------------------------------------------------------
(* Properties of filter_items_by_restrictions (under SpecFilter) *)

\* C1: for every restriction set and every parsed object with an item list,
\* running the filter again on its own output removes no item and leaves the
\* object (items and totals) as the first run left it.
C1_FilterIdempotent ==
    (pc = "filter_twice" /\ HasItemList(parsed_in))
        => (removed_items = <<>> /\ parsed = prev_out[1])

\* the first run removed an item and wrote totals over those of the reply
C1_Witness ==
    /\ pc = "filter_twice" /\ HasItemList(parsed_in)
    /\ prev_out[2] # <<>>
    /\ OutItems # <<>>
    /\ "totals" \in DOMAIN parsed_in.m
    /\ parsed.m["totals"] # parsed_in.m["totals"]

C3_NoNumericNoTotals ==
    (Filtered /\ HasItemList(parsed_in)
        /\ ~AnyNumeric(OutItems) /\ ~AnyNumericString(OutItems))
        => "totals" \notin DOMAIN parsed.m

\* C4: in the totals of the result a field that is a numeric string counts as
\* the number it denotes, and a non-numeric string does not count.
C4_NumericStringsCount ==
    (Filtered /\ HasItemList(parsed_in)
        /\ (AnyNumeric(OutItems) \/ AnyNumericString(OutItems)))
        => TotalsAre(FieldSumWithStrings)

\* the keywords of a list, as a set
KeywordSet(kws) == { kws[i] : i \in 1..Len(kws) }

\* sub occurs in s
Occurs(sub, s) == \E i \in 1..(Len(s) - Len(sub) + 1) : SubSeq(s, i, i + Len(sub) - 1) = sub

\* how often x is in the list
Count(l, x) == Cardinality({ i \in 1..Len(l) : l[i] = x })

RemovedUnder(p, rs) == filter_items_by_restrictions(p, rs).removed

EggsThenBroccoli ==
    /\ HasItemList(parsed_in) /\ Len(InItems) = 2
    /\ item_name_of(InItems[1]) = JStr(N_scrambled_eggs)
    /\ item_name_of(InItems[2]) = JStr(N_steamed_broccoli)

\* the Vegan list holds every Vegetarian keyword, a keyword inside every
\* Dairy-free keyword, and egg and honey
VeganKeywordsCover ==
    /\ KeywordSet(KW_Vegetarian) \subseteq KeywordSet(KW_Vegan)
    /\ \A kw \in KeywordSet(KW_Dairy_free) :
          \E v \in KeywordSet(KW_Vegan) : Occurs(v, kw)
    /\ { <<"e","g","g">>, <<"h","o","n","e","y">> } \subseteq KeywordSet(KW_Vegan)

C9_NoItemListUnchanged ==
    (pc \in {"filter_once", "filter_twice", "filter_raised"} /\ ~HasItemList(parsed_in))
        => (pc # "filter_raised" /\ parsed = parsed_in /\ removed_items = <<>>)

\* the sentinel was filtered under a restriction
C9_Witness ==
    /\ pc = "filter_once"
    /\ parsed_in = MkObj(<< <<"raw", JStr(S_abc)>> >>)
    /\ restrictions = <<"Vegan">>

---------------------------------------------------------------------------
(* Properties of violates_restrictions (under SpecViolates) *)

\* the name in lower case
LowerCased(name) ==
    [i \in 1..Len(name) |-> IF name[i] \in DOMAIN LowerOf THEN LowerOf[name[i]] ELSE name[i]]

\* some keyword of some active tag occurs in the lower-cased name, "nut" not
\* counting when "donut" occurs in it
KeywordMatch(name, rs) ==
    \E j \in 1..Len(rs) : \E kw \in KeywordSet(RESTRICTION_KEYWORDS(rs[j])) :
        /\ Occurs(kw, LowerCased(name))
        /\ ~(kw = <<"n","u","t">> /\ Occurs(<<"d","o","n","u","t">>, LowerCased(name)))

\* C5: violates_restrictions reports a violation, and the filter removes the
\* item, exactly when the lower-cased name contains a keyword of an active
\* tag, "nut" not counting when the name contains "donut"; "Grilled chicken
\* breast" is removed under {Vegetarian}, "donut" is kept under {Nut-free}.
C5_ViolatesIffKeyword ==
    pc = "violates_done" =>
        /\ verdict <=> KeywordMatch(item_name, restrictions)
        /\ removed_items = IF verdict THEN << JStr(item_name) >> ELSE <<>>
        /\ (item_name = N_Grilled_chicken_breast /\ restrictions = <<"Vegetarian">>)
              => verdict
        /\ (item_name = N_donut /\ restrictions = <<"Nut-free">>) => ~verdict

\* a name with "donut" in it that another Nut-free keyword still removes
C5_Witness ==
    /\ pc = "violates_done"
    /\ item_name = N_peanut_donut
    /\ restrictions = <<"Nut-free">>
    /\ removed_items = << JStr(N_peanut_donut) >>

---------------------------------------------------------------------------
(* The frame of filter_items_by_restrictions (under SpecFilter) *)

\* the item has a name in which a keyword of an active tag occurs
Violating(it) ==
    /\ it.t = "obj" /\ "name" \in DOMAIN it.m /\ it.m["name"].t = "str"
    /\ KeywordMatch(it.m["name"].s, restrictions)
NotViolating(it) == ~Violating(it)
FrameKeys(p) == DOMAIN p.m \ {"items", "totals"}

\* C12: the filter changes the item list by removal only: the surviving
\* list is the input items that do not violate the restrictions, in input
\* order and each equal to its input item; the removed list holds the names of
\* the violating items in input order; and every key of the object other than
\* items and totals (the suggestions among them) is as it was.
C12_OnlyRemoval ==
    (pc = "filter_once" /\ HasItemList(parsed_in)) =>
        /\ OutItems = SelectSeq(InItems, NotViolating)
        /\ Len(removed_items) = Len(SelectSeq(InItems, Violating))
        /\ \A i \in 1..Len(removed_items) :
              removed_items[i] = SelectSeq(InItems, Violating)[i].m["name"]
        /\ FrameKeys(parsed) = FrameKeys(parsed_in)
        /\ \A k \in FrameKeys(parsed_in) : parsed.m[k] = parsed_in.m[k]

\* under Vegan, a reply of broccoli, eggs, with suggestions: the broccoli item
\* is kept as it was, the eggs are named in the removed list
C12_Witness ==
    /\ pc = "filter_once"
    /\ restrictions = << "Vegan" >>
    /\ HasItemList(parsed_in)
    /\ InItems = << MkItem(JStr(N_steamed_broccoli), StringFields),
                    MkItem(JStr(N_scrambled_eggs), MixedFields) >>
    /\ OutItems = << MkItem(JStr(N_steamed_broccoli), StringFields) >>
    /\ removed_items = << JStr(N_scrambled_eggs) >>
    /\ "suggestions" \in FrameKeys(parsed)

---------------------------------------------------------------------------
(* Properties of the Analyze and Recipes actions *)

\* an Analyze run has finished and its row loop has run over the surviving items
Rendered == pc = "analyzed" /\ HasItemList(parsed)
Survivors == parsed.m["items"].a

\* a field that is present and holds a number or a numeric string
Parses(it, key) == it.t = "obj" /\ key \in DOMAIN it.m /\ parse_float_safe(it.m[key]) # JNull
ParsesZero(it, key) == Parses(it, key) /\ parse_float_safe(it.m[key]) = JNum(0)
NoNumericField(it) == \A j \in 1..4 : ~Parses(it, NutritionKeys[j])
AllFourZero(it) == \A j \in 1..4 : ParsesZero(it, NutritionKeys[j])
MissingNutrition(it) == NoNumericField(it) \/ AllFourZero(it)
HasRow(it) == ~MissingNutrition(it)
IsObject(it) == it.t = "obj"
Label(it) ==
    IF IsObject(it) /\ "name" \in DOMAIN it.m /\ truthy(it.m["name"])
    THEN it.m["name"] ELSE [t |-> "dump", of |-> it]

\* the missing-nutrition list holds the labels of exactly the items that are
\* missing nutrition, and the breakdown one row for each of the other items
ClassifiedAs(items) ==
    LET miss == SelectSeq(items, MissingNutrition)
        rows == SelectSeq(items, HasRow)
    IN /\ Len(missing_nutrition) = Len(miss)
       /\ \A i \in 1..Len(miss) : missing_nutrition[i] = Label(miss[i])
       /\ Len(shown_rows) = Len(rows)
       /\ \A i \in 1..Len(rows) : shown_rows[i] = row_of(rows[i])

\* C7 as stated: every surviving item, whatever it is, is either reported in
\* the missing-nutrition list (it has no numeric field, or all four fields are
\* present and parse to zero) or is exactly one row of the breakdown.
C7_EverySurvivorClassified == Rendered => ClassifiedAs(Survivors)

\* C7 amended: every surviving item that is an object is reported in the
\* missing-nutrition list and is no row exactly when it has no numeric field
\* or all four fields are present and parse to zero, and is exactly one row
\* otherwise; a surviving element that is not an object is neither reported
\* nor a row.
C7_ObjectSurvivorsClassified == Rendered => ClassifiedAs(SelectSeq(Survivors, IsObject))

\* a reply with an item whose four fields are "0", "0.0", " 0 " and 0, and an
\* item whose fat alone is not zero: the first is reported, the second is the
\* one row
C7_Witness ==
    /\ Rendered
    /\ \E i, j \in DOMAIN Survivors :
          /\ Survivors[i] = MkItem(JStr(N_steamed_broccoli), ZeroStrings)
          /\ Survivors[j] = MkItem(JStr(N_steamed_broccoli), ZeroButFat)
    /\ missing_nutrition = << JStr(N_steamed_broccoli) >>
    /\ Len(shown_rows) = 1

\* the successful response of the finished action has no choices, or an empty
\* choices array
MissingOrEmptyChoices ==
    /\ pc \in {"analyzed", "recipes_shown"}
    /\ response.kind = "ok"
    /\ response.body.t = "obj"
    /\ \/ "choices" \notin DOMAIN response.body.m
       \/ response.body.m["choices"] = JArr(<<>>)

\* C10: with a missing or an empty choices array the action takes the content
\* to be the empty string and does not end in the exception message.
C10_ChoicesTolerated ==
    MissingOrEmptyChoices =>
        /\ content = JStr(<<>>)
        /\ \A i \in 1..Len(messages) : messages[i] # ExceptionMsg

\* an action is running: its call has been issued and has not ended
Running == pc \in {"analyze"} \cup RecipeTypes
\* the last action has run to its end
Completed == pc \in {"analyzed", "recipes_shown"}
\* the call of the last action did not return a decoded body
CallFailed == Completed /\ response.kind \in { f.kind : f \in CallFailures }
ErrorMessages == { HttpErrorMsg, ExceptionMsg }

\* at every moment of an action, and however its call has ended, one request
\* has been issued; after a failed call the page holds one message, an error
OneRequestOneMessage ==
    /\ (Running \/ Completed) => requests = 1
    /\ Running => response = NoResponse
    /\ Completed => response # NoResponse
    /\ CallFailed => Len(messages) = 1 /\ messages[1] \in ErrorMessages
    /\ Completed => pc \in Ready

\* C11: every action (Analyze, Breakfast, Lunch, Dinner) issues exactly one
\* request and no second one, whether the call returns, times out, fails in
\* transport or returns a non-success status; a failed call leaves exactly
\* one error message; and every action that has started runs to its end,
\* where the application accepts the next action.
C11_OneRequestPerAction == []OneRequestOneMessage /\ (Running ~> Completed)

\* a Lunch request whose call has timed out has ended with one request and
\* the one error message
C11_Witness ==
    /\ pc = "recipes_shown"
    /\ response.kind = "timeout"
    /\ requests = 1
    /\ messages = << ExceptionMsg >>

---------------------------------------------------------------------------
(* Harness: extract_json on a text *)

FixedTexts ==
    { Text_wrapped_items, Text_not_json,
      << TLK, TRK >>,
      << TLK, TLB, TRB, TRK, TWord >>,
      << TLK, TVal(JNull), TCM, TVal(JStr(S_abc)), TRK >>,
      << TWord, TLB, TKey("items"), TLK, TLB, TKey("name"), TVal(JStr(S_abc)), TRB,
         TCM, TLB, TRB, TRK, TCM, TKey("totals"), TLB, TRB, TRB >>,
      << TLB, TKey("items"), TLK, TVal(JNum(20)), TCM, TRK, TRB >>,
      << TLB, TRB, TWord, TLB, TRB >>,
      << TWord, TLB, TKey("items"), TLB, TRB, TRB >> }

MaxTokens == 5

ExtractTexts == FixedTexts \cup ListsUpTo({ TLB, TRB, TCM, TKey("items"), TVal(JNum(20)), TWord }, MaxTokens)

InitExtract ==
    /\ pc = "extract_input"
    /\ content \in { JStr(t) : t \in ExtractTexts }
    /\ parsed = JNull
    /\ parsed_in = JNull
    /\ restrictions = <<>>
    /\ removed_items = <<>>
    /\ prev_out = <<>>
    /\ missing_nutrition = <<>>
    /\ shown_rows = <<>>
    /\ totals_row = NoTable
    /\ messages = <<>>
    /\ requests = 0
    /\ response = NoResponse
    /\ item_name = <<>>
    /\ verdict = FALSE

Extract ==
    /\ pc = "extract_input"
    /\ \E out \in { extract_json(content) } :
          /\ pc' = IF out.raised THEN "extract_raised" ELSE "extract_done"
          /\ parsed' = out.v
    /\ UNCHANGED << restrictions, content, parsed_in, removed_items, prev_out,
                    missing_nutrition, shown_rows, totals_row, messages, requests,
                    response, item_name, verdict >>

NextExtract == Extract
SpecExtract == InitExtract /\ [][NextExtract]_vars

---------------------------------------------------------------------------
(* Properties of extract_json (under SpecExtract) *)

IsOpen(t)  == t.tok \in {"{", "["}
IsClose(t) == t.tok \in {"}", "]"}

\* the lexemes between a "{" and its "}" are key, value, comma, key, value, ...
MembersOk(inner) ==
    /\ inner = <<>> \/ Len(inner) % 3 = 2
    /\ \A q \in 1..Len(inner) :
          inner[q].tok = (CASE q % 3 = 1 -> "key" [] q % 3 = 2 -> "val" [] OTHER -> ",")
\* the object they denote: for a repeated key the last value
MembersValue(inner) ==
    JObj([k \in { inner[q].k : q \in { x \in 1..Len(inner) : x % 3 = 1 } } |->
            inner[(CHOOSE q \in 1..Len(inner) :
                      /\ q % 3 = 1 /\ inner[q].k = k
                      /\ \A x \in (q + 1)..Len(inner) : x % 3 = 1 => inner[x].k # k) + 1].v])

\* the lexemes between a "[" and its "]" are value, comma, value, ...
ElemsOk(inner) ==
    /\ inner = <<>> \/ Len(inner) % 2 = 1
    /\ \A q \in 1..Len(inner) : inner[q].tok = (IF q % 2 = 1 THEN "val" ELSE ",")
ElemsValue(inner) == JArr([q \in 1..((Len(inner) + 1) \div 2) |-> inner[2 * q - 1].v])

\* The value a text denotes as JSON, by folding the innermost bracket pair
\* into one value until no bracket is left.
RECURSIVE Denotes(_)
Denotes(text) ==
    IF \A q \in 1..Len(text) : ~IsOpen(text[q]) /\ ~IsClose(text[q])
    THEN IF Len(text) = 1 /\ text[1].tok = "val" THEN [ok |-> TRUE, v |-> text[1].v]
         ELSE [ok |-> FALSE]
    ELSE IF ~\E q \in 1..Len(text) : IsClose(text[q]) THEN [ok |-> FALSE]
    ELSE LET j == CHOOSE q \in 1..Len(text) :
                      IsClose(text[q]) /\ \A x \in 1..(q - 1) : ~IsClose(text[x])
         IN IF ~\E q \in 1..(j - 1) : IsOpen(text[q]) THEN [ok |-> FALSE]
            ELSE LET i == CHOOSE q \in 1..(j - 1) :
                              IsOpen(text[q]) /\ \A x \in (q + 1)..(j - 1) : ~IsOpen(text[x])
                     inner == SubSeq(text, i + 1, j - 1)
                 IN IF text[i].tok = "{" /\ text[j].tok = "}" /\ MembersOk(inner)
                    THEN Denotes(SubSeq(text, 1, i - 1) \o << TVal(MembersValue(inner)) >>
                                 \o SubSeq(text, j + 1, Len(text)))
                    ELSE IF text[i].tok = "[" /\ text[j].tok = "]" /\ ElemsOk(inner)
                    THEN Denotes(SubSeq(text, 1, i - 1) \o << TVal(ElemsValue(inner)) >>
                                 \o SubSeq(text, j + 1, Len(text)))
                    ELSE [ok |-> FALSE]

\* the lexemes from the first "{" to the last "}", when the text has both in
\* that order
HasBraceSpan(text) ==
    \E i, j \in 1..Len(text) : i < j /\ text[i].tok = "{" /\ text[j].tok = "}"
BraceSpan(text) ==
    LET i == CHOOSE q \in 1..Len(text) :
                text[q].tok = "{" /\ \A x \in 1..(q - 1) : text[x].tok # "{"
        j == CHOOSE q \in 1..Len(text) :
                text[q].tok = "}" /\ \A x \in (q + 1)..Len(text) : text[x].tok # "}"
    IN SubSeq(text, i, j)

\* what extract_json is to return for a text
Extracted(text) ==
    IF Denotes(text).ok THEN Denotes(text).v
    ELSE IF HasBraceSpan(text) /\ Denotes(BraceSpan(text)).ok
         THEN Denotes(BraceSpan(text)).v
    ELSE JObj([k \in {"raw"} |-> JStr(text)])

\* C8: extract_json never fails; it returns the strict parse of the whole text
\* when the text is JSON, else the parse of the span from the first "{" to the
\* last "}" when that span is JSON, else {raw: text}; the prose-wrapped
\* {"items": []} yields that object, "not json at all" yields the sentinel.
C8_ExtractJsonTotal ==
    /\ pc # "extract_raised"
    /\ pc = "extract_done" =>
          /\ parsed = Extracted(content.s)
          /\ content.s = Text_wrapped_items => parsed = MkObj(<< <<"items", JArr(<<>>)>> >>)
          /\ content.s = Text_not_json => parsed = MkObj(<< <<"raw", JStr(Text_not_json)>> >>)

\* prose around an object that holds an object: the span must run to the last "}"
C8_Witness ==
    /\ pc = "extract_done"
    /\ content.s = << TWord, TLB, TKey("items"), TLB, TRB, TRB >>
    /\ parsed = MkObj(<< <<"items", JObj(EmptyDict)>> >>)

====
